---- MODULE Spec2Model ----
(***************************************************************************)
(* A model of ctf_agent/orchestrator.py: the LocalRunner (path             *)
(* confinement, command allowlist, network gate, timeouts, install gating, *)
(* flag detection) and the loop of run_hybrid_llm_local_exec that drives   *)
(* it.  The two LLM providers (manager.decide, hacker.attempt) are opaque: *)
(* each query returns any value of a small set or raises.  Text is kept as *)
(* strings and the string functions of the code (lower, in, startswith,    *)
(* endswith, join, Path.name, Path.resolve, FLAG_RE.search) are computed   *)
(* character by character.                                                 *)
(***************************************************************************)
EXTENDS Integers, Sequences, FiniteSets, TLC

(***************************************************************************)
(* Bounds of the model.                                                    *)
(***************************************************************************)
\* max_steps is drawn from 0..MaxSteps
MaxSteps == 2

(***************************************************************************)
(* Optional values: None is <<>>, a present value v is <<v>>.              *)
(***************************************************************************)
None == <<>>
Some(v) == <<v>>
IsSome(o) == o # <<>>
Val(o) == o[1]

(***************************************************************************)
(* Text.                                                                   *)
(***************************************************************************)
Char(s, i) == SubSeq(s, i, i)

\* s[a-1:b], clamped to the text as a Python slice is
Slice(s, a, b) == SubSeq(s, a, IF b < Len(s) THEN b ELSE Len(s))

\* str.startswith(p)
StartsWith(s, p) == Len(s) >= Len(p) /\ SubSeq(s, 1, Len(p)) = p

\* str.endswith(p)
EndsWith(s, p) == Len(s) >= Len(p) /\ SubSeq(s, Len(s) - Len(p) + 1, Len(s)) = p

\* `sub in s`
Contains(s, sub) == \E i \in 1..(Len(s) - Len(sub) + 1) : SubSeq(s, i, i + Len(sub) - 1) = sub

UpperToLower ==
  ("A" :> "a") @@ ("B" :> "b") @@ ("C" :> "c") @@ ("D" :> "d") @@ ("E" :> "e") @@ ("F" :> "f")
  @@ ("G" :> "g") @@ ("H" :> "h") @@ ("I" :> "i") @@ ("J" :> "j") @@ ("K" :> "k") @@ ("L" :> "l")
  @@ ("M" :> "m") @@ ("N" :> "n") @@ ("O" :> "o") @@ ("P" :> "p") @@ ("Q" :> "q") @@ ("R" :> "r")
  @@ ("S" :> "s") @@ ("T" :> "t") @@ ("U" :> "u") @@ ("V" :> "v") @@ ("W" :> "w") @@ ("X" :> "x")
  @@ ("Y" :> "y") @@ ("Z" :> "z")

LowerChar(c) == IF c \in DOMAIN UpperToLower THEN UpperToLower[c] ELSE c

\* str.lower()
RECURSIVE Lower(_)
Lower(s) == IF s = "" THEN "" ELSE LowerChar(Head(s)) \o Lower(Tail(s))

\* sep.join(parts)
RECURSIVE Join(_, _)
Join(parts, sep) ==
  IF parts = <<>> THEN ""
  ELSE IF Len(parts) = 1 THEN parts[1]
  ELSE parts[1] \o sep \o Join(Tail(parts), sep)

\* s[:n]
Prefix(s, n) == SubSeq(s, 1, IF n < Len(s) THEN n ELSE Len(s))

Digits ==
  ("0" :> 0) @@ ("1" :> 1) @@ ("2" :> 2) @@ ("3" :> 3) @@ ("4" :> 4)
  @@ ("5" :> 5) @@ ("6" :> 6) @@ ("7" :> 7) @@ ("8" :> 8) @@ ("9" :> 9)

IsDigits(s) == s # "" /\ \A i \in 1..Len(s) : Char(s, i) \in DOMAIN Digits

RECURSIVE ParseNat(_, _)
ParseNat(s, acc) == IF s = "" THEN acc ELSE ParseNat(Tail(s), 10 * acc + Digits[Head(s)])

(***************************************************************************)
(* Flag scanner.                                                           *)
(***************************************************************************)
\* the three alternatives of FLAG_RE, as re.IGNORECASE compares them
FLAG_RE_TAGS == {"flag{", "ctf{", "picoctf{"}

FLAG_PREFIXES == {"flag{", "ctf{", "picoCTF{"}

\* the first index >= b of text holding "}" or a newline, 0 if there is none
BodyStop(text, b) ==
  LET stops == {k \in b..Len(text) : Char(text, k) \in {"}", "\n"}}
  IN  IF stops = {} THEN 0 ELSE CHOOSE k \in stops : \A m \in stops : k <= m

\* the end of FLAG_RE's match that starts at index i of text, 0 if none starts there
MatchEndAt(text, i) ==
  LET tags == {t \in FLAG_RE_TAGS : Lower(Slice(text, i, i + Len(t) - 1)) = t}
  IN  IF tags = {} THEN 0
      ELSE LET t == CHOOSE x \in tags : TRUE
               b == i + Len(t)
               k == BodyStop(text, b)
           IN  IF k > b /\ Char(text, k) = "}" THEN k ELSE 0

\* find_flag(text): the leftmost match of FLAG_RE, or None
find_flag(text) ==
  LET starts == {i \in 1..Len(text) : MatchEndAt(text, i) # 0}
  IN  IF starts = {} THEN None
      ELSE LET i == CHOOSE x \in starts : \A y \in starts : x <= y
           IN  Some(SubSeq(text, i, MatchEndAt(text, i)))

\* flag.startswith(FLAG_PREFIXES)
HasFlagPrefix(s) == \E p \in FLAG_PREFIXES : StartsWith(s, p)

(***************************************************************************)
(* Paths and the file system the run sees.                                 *)
(***************************************************************************)
\* the components of a path, as pathlib keeps them: no empty ones, no "."
RECURSIVE Segs(_, _)
Segs(s, cur) ==
  LET done == IF cur \in {"", "."} THEN <<>> ELSE <<cur>>
  IN  IF s = "" THEN done
      ELSE IF Head(s) = "/" THEN done \o Segs(Tail(s), "")
      ELSE Segs(Tail(s), cur \o Head(s))

\* str(path) of an absolute path
Render(segs) == "/" \o Join(segs, "/")

\* Path(s).name
Basename(s) == LET g == Segs(s, "") IN IF g = <<>> THEN "" ELSE g[Len(g)]

\* base / rel: an absolute rel replaces base
PathJoin(base, rel) == IF StartsWith(rel, "/") THEN rel ELSE base \o "/" \o rel

challenge_dir == "/ctf"
work_dir == "/work"

\* regular files, by canonical path, with their bytes
Files ==
  [p \in {"/ctf/a.zip", "/ctf/data.bin", "/ctf/evidence.tar.gz", "/ctf/flag.txt",
          "/ctf/notes.txt", "/ctf2/secret.txt", "/etc/passwd"} |->
     CASE p = "/ctf/a.zip" -> "PK"
       [] p = "/ctf/data.bin" -> "%ELF"
       [] p = "/ctf/evidence.tar.gz" -> "%gz"
       [] p = "/ctf/flag.txt" -> "hello\nflag{abc123}\n"
       [] p = "/ctf/notes.txt" -> "see the archive"
       [] p = "/ctf2/secret.txt" -> "ctf{outside}"
       [] p = "/etc/passwd" -> "root:x:0:0"]

Dirs == {"/", "/ctf", "/ctf2", "/etc", "/work"}

\* symbolic links, by path, with their targets
Symlinks == [p \in {"/ctf/link"} |-> "/etc"]

\* Path.resolve(): "..", and symbolic links followed
RECURSIVE Walk(_, _)
Walk(stack, todo) ==
  IF todo = <<>> THEN stack
  ELSE LET seg == Head(todo)
           rest == Tail(todo)
       IN  IF seg = ".."
           THEN Walk(IF stack = <<>> THEN <<>> ELSE SubSeq(stack, 1, Len(stack) - 1), rest)
           ELSE IF Render(Append(stack, seg)) \in DOMAIN Symlinks
           THEN Walk(<<>>, Segs(Symlinks[Render(Append(stack, seg))], "") \o rest)
           ELSE Walk(Append(stack, seg), rest)

Resolve(p) == Render(Walk(<<>>, Segs(p, "")))

\* the byte that is no UTF-8, and what decode(errors="replace") puts for it
InvalidByte == "%"
Replacement == "?"

\* bytes.decode("utf-8", errors="replace")
RECURSIVE Decode(_)
Decode(b) ==
  IF b = "" THEN ""
  ELSE (IF Head(b) = InvalidByte THEN Replacement ELSE Head(b)) \o Decode(Tail(b))

(***************************************************************************)
(* Policy.                                                                 *)
(***************************************************************************)
DEFAULT_CMD_ALLOWLIST ==
  {"file", "strings", "xxd", "hexdump", "unzip", "7z", "tar", "jq", "python3", "python"}

DEFAULT_INSTALL_ALLOWLIST ==
  {"binutils", "p7zip-full", "unzip", "jq", "exiftool", "tshark", "binwalk"}

NETWORK_TOKENS ==
  {"curl", "wget", "nc", "netcat", "ssh", "telnet", "nmap", "http", "https"}

(***************************************************************************)
(* LocalRunner.  An operation gives the set of its possible outcomes: a    *)
(* RunResult returned, an exception raised, or a child process started     *)
(* (whose end is another step).  fx are the effects on the file system and *)
(* the process table the operation had so far.                             *)
(***************************************************************************)
RunResult(ok, stdout, stderr, timeout, flag) ==
  [ok |-> ok, stdout |-> stdout, stderr |-> stderr, timeout |-> timeout, flag |-> flag]

NoFx == [reads |-> <<>>, mkdirs |-> <<>>, spawned |-> <<>>]

Returned(res, fx) == [k |-> "result", res |-> res, fx |-> fx]
Raised(exc, fx) == [k |-> "raise", exc |-> exc, fx |-> fx]
\* timeout_s is None for a child run without any; next is the command install
\* goes on with once the child has ended with 0
Started(cmd, cwd, timeout_s, next, fx) ==
  [k |-> "spawn", cmd |-> cmd, cwd |-> cwd, timeout_s |-> timeout_s, next |-> next,
   fx |-> [fx EXCEPT !.spawned = Append(@, [cmd |-> cmd, cwd |-> cwd, timeout_s |-> timeout_s])]]

\* the files of the challenge directory, sorted, relative to it
Inventory == <<"a.zip", "data.bin", "evidence.tar.gz", "flag.txt", "notes.txt">>

list_files ==
  LET out == Join(Inventory, "\n") \o (IF Inventory # <<>> THEN "\n" ELSE "")
  IN  {Returned(RunResult(TRUE, out, "", FALSE, None), NoFx)}

\* the test of lines 155 and 210: a prefix of the text of the path
Confined(p) == StartsWith(p, challenge_dir)

read_file_head(relpath, max_bytes) ==
  LET p == Resolve(PathJoin(challenge_dir, relpath))
  IN  IF ~Confined(p)
      THEN {Returned(RunResult(FALSE, "", "path escape blocked", FALSE, None), NoFx)}
      ELSE IF p \in DOMAIN Files
      THEN LET txt == Decode(Prefix(Files[p], max_bytes))
           IN  {Returned(RunResult(TRUE, txt, "", FALSE, find_flag(txt)),
                         [NoFx EXCEPT !.reads = <<p>>])}
      ELSE IF p \in Dirs
      THEN {Raised("IsADirectoryError: [Errno 21] Is a directory: " \o p, NoFx)}
      ELSE {Raised("FileNotFoundError: [Errno 2] No such file or directory: " \o p, NoFx)}

\* lines 164-165: the name of the first token is in the allowlist
CmdAllowed_AbsoluteTrusted(cmd, policy) ==
  StartsWith(cmd[1], "/") \/ Basename(cmd[1]) \in policy.cmd_allowlist

CmdAllowed(cmd, policy) == Basename(cmd[1]) \in policy.cmd_allowlist

\* lines 169-171 without .lower()
NetworkHits_CaseSensitive(cmd) ==
  LET s == Join(cmd, " ") IN {tok \in NETWORK_TOKENS : Contains(s, tok)}

\* lines 169-171: the network tokens the joined, lowered command holds
NetworkHits(cmd) ==
  LET s == Lower(Join(cmd, " ")) IN {tok \in NETWORK_TOKENS : Contains(s, tok)}

\* _check_cmd: the pairs (ok, reason) it can return (the loop over the set
\* NETWORK_TOKENS meets the tokens in no fixed order)
_check_cmd(cmd, policy) ==
  IF cmd = <<>> THEN {<<FALSE, "empty cmd">>}
  ELSE IF ~CmdAllowed(cmd, policy)
  THEN {<<FALSE, "cmd not allowed: " \o Basename(cmd[1])>>}
  ELSE IF policy.allow_network THEN {<<TRUE, "">>}
  ELSE LET hits == NetworkHits(cmd)
       IN  IF hits # {}
           THEN {<<FALSE, "network token blocked: " \o tok>> : tok \in hits}
           ELSE {<<TRUE, "">>}

\* run_cmd up to subprocess.run
run_cmd(cmd, timeout_s, cwd_rel, policy, fx) ==
  LET cwd == IF cwd_rel = None THEN work_dir ELSE Resolve(PathJoin(work_dir, Val(cwd_rel)))
  IN  {IF c[1]
       THEN Started(cmd, Some(cwd), Some(timeout_s), None, [fx EXCEPT !.mkdirs = Append(@, cwd)])
       ELSE Returned(RunResult(FALSE, "", c[2], FALSE, None), fx)
       : c \in _check_cmd(cmd, policy)}

run_python(code, timeout_s, policy) ==
  LET py == IF "python3" \in policy.cmd_allowlist THEN "python3" ELSE "python"
  IN  run_cmd(<<py, "-c", code>>, timeout_s, None, policy, NoFx)

extract_archive(relpath, timeout_s, policy) ==
  LET src == Resolve(PathJoin(challenge_dir, relpath))
      outdir == work_dir \o "/extracted"
      fx == [NoFx EXCEPT !.mkdirs = <<outdir>>]
      low == Lower(relpath)
  IN  IF ~Confined(src)
      THEN {Returned(RunResult(FALSE, "", "path escape blocked", FALSE, None), NoFx)}
      ELSE IF EndsWith(low, ".zip")
      THEN run_cmd(<<"unzip", "-o", src, "-d", outdir>>, timeout_s, None, policy, fx)
      ELSE IF EndsWith(low, ".7z")
      THEN run_cmd(<<"7z", "x", "-y", "-o" \o outdir, src>>, timeout_s, None, policy, fx)
      ELSE IF EndsWith(low, ".tar") \/ EndsWith(low, ".tar.gz") \/ EndsWith(low, ".tgz")
      THEN run_cmd(<<"tar", "-xf", src, "-C", outdir>>, timeout_s, None, policy, fx)
      ELSE {Returned(RunResult(FALSE, "", "unknown archive type", FALSE, None), fx)}

\* the operating systems _detect_host can report
Hosts == {"linux", "darwin", "windows"}

\* lines 231-232 looking at the first package only
BadPackages_FirstOnly(packages, policy) ==
  {i \in 1..Len(packages) : i = 1 /\ packages[i] \notin policy.install_allowlist}

\* lines 231-232: the places of the packages that are not in the allowlist
BadPackages(packages, policy) ==
  {i \in 1..Len(packages) : packages[i] \notin policy.install_allowlist}

\* install up to its first child process; shutil.which may or may not find
\* the package manager of the host
install(packages, timeout_s, policy, os) ==
  LET bad == BadPackages(packages, policy)
  IN  IF ~policy.allow_install
      THEN {Returned(RunResult(FALSE, "", "install blocked (enable --allow-install)", FALSE, None), NoFx)}
      ELSE IF bad # {}
      THEN {Returned(RunResult(FALSE, "",
                "package not allowed: " \o packages[CHOOSE i \in bad : \A j \in bad : i <= j],
                FALSE, None), NoFx)}
      ELSE IF os = "linux"
      THEN {Returned(RunResult(FALSE, "", "apt not found on this linux host", FALSE, None), NoFx),
            Started(<<"sudo", "apt", "update">>, None, None,
                    Some([cmd |-> <<"sudo", "apt", "install", "-y">> \o packages,
                          timeout_s |-> timeout_s]), NoFx)}
      ELSE IF os = "darwin"
      THEN {Returned(RunResult(FALSE, "", "brew not found on macOS", FALSE, None), NoFx)}
           \cup run_cmd(<<"brew", "install">> \o packages, timeout_s, None, policy, NoFx)
      ELSE {Returned(RunResult(FALSE, "", "unsupported OS for install: " \o os, FALSE, None), NoFx)}

(***************************************************************************)
(* What the providers and the child processes can answer.                  *)
(***************************************************************************)
\* dict.get(f, d)
Get(a, f, d) == IF f \in DOMAIN a THEN a[f] ELSE d

\* a JSON list, and a JSON value that is no list
List(l) == [j |-> "list", l |-> l]
Number(n) == [j |-> "int", n |-> n]

\* a JSON string, where the code asks whether the value is one
Text(s) == [j |-> "str", s |-> s]

\* actions.py
ALLOWED_ACTIONS ==
  {"list_files", "read_file_head", "run_cmd", "run_python", "extract_archive", "stop"}

\* validate_action: None when it returns, the message of the ValueError it
\* raises otherwise; a.get("type") of a descriptor without type is None
validate_action(a) ==
  LET t == Get(a, "type", "None")
  IN  IF t \notin ALLOWED_ACTIONS THEN Some("Action not allowed: " \o t)
      ELSE IF t = "run_cmd" /\ Get(a, "cmd", Number(0)).j # "list"
      THEN Some("run_cmd requires cmd: [..]")
      ELSE IF t = "run_python" /\ Get(a, "code", Number(0)).j # "str"
      THEN Some("run_python requires code: str")
      ELSE None

\* a dict with the one key f, and the dict without it
Field(f, v) == [k \in {f} |-> v]
NoField == [k \in {} |-> None]

\* descriptors validate_action can be given
Descriptors ==
  { kind @@ cmd @@ code @@ extra :
      kind \in {NoField} \cup {Field("type", t) : t \in ALLOWED_ACTIONS \cup {"install", "shell", ""}},
      cmd \in {NoField, Field("cmd", Number(5)), Field("cmd", List(<<>>)),
               Field("cmd", List(<<"strings", "data.bin">>))},
      code \in {NoField, Field("code", Text("print(1)")), Field("code", Number(5))},
      extra \in {NoField, Field("color", Text("red"))} }

\* action descriptors the hacker can return; a number or a string is given
\* by its JSON text where the code converts it with int()
Actions ==
  { [type |-> "list_files"],
    [type |-> "read_file_head", target |-> "flag.txt"],
    [type |-> "read_file_head", target |-> "flag.txt", max_bytes |-> "9"],
    [type |-> "read_file_head", target |-> "../ctf2/secret.txt"],
    [type |-> "read_file_head", target |-> "/etc/passwd"],
    [type |-> "read_file_head", target |-> "link/passwd"],
    [type |-> "read_file_head", target |-> "missing.txt"],
    [type |-> "read_file_head"],
    [type |-> "run_cmd", cmd |-> List(<<"strings", "data.bin">>)],
    [type |-> "run_cmd", cmd |-> List(<<"/usr/bin/file", "data.bin">>), cwd |-> "../ctf"],
    [type |-> "run_cmd", cmd |-> List(<<"curl", "http://evil">>)],
    [type |-> "run_cmd", cmd |-> List(<<"/bin/rm", "-rf", "x">>)],
    [type |-> "run_cmd", cmd |-> List(<<"strings", "WGET.log">>)],
    [type |-> "run_cmd", cmd |-> List(<<>>)],
    [type |-> "run_cmd", cmd |-> Number(5)],
    [type |-> "run_cmd", cmd |-> List(<<"strings", "data.bin">>), timeout_s |-> "abc"],
    [type |-> "run_python", code |-> "print(1)"],
    [type |-> "extract_archive", target |-> "evidence.tar.gz"],
    [type |-> "extract_archive", target |-> "a.zip"],
    [type |-> "extract_archive", target |-> "data.bin"],
    [type |-> "extract_archive", target |-> "../ctf2/b.ZIP"],
    [type |-> "extract_archive", target |-> "/etc/x.tar"],
    [type |-> "install", packages |-> List(<<"jq">>)],
    [type |-> "install", packages |-> List(<<"jq", "evilpkg">>)],
    [type |-> "stop"],
    [type |-> "stop", flag |-> "flag{h3}"],
    [type |-> "stop", flag |-> "FLAG{h4}"],
    [type |-> "shell", target |-> "id"] }

\* what manager.decide can return
ManagerDecisions ==
  { [stop |-> FALSE, final_flag |-> None, objective |-> Some("look at the files")],
    [stop |-> FALSE, final_flag |-> Some("flag{m0}"), objective |-> Some("look at the files")],
    [stop |-> TRUE, final_flag |-> None, objective |-> Some("look at the files")],
    [stop |-> TRUE, final_flag |-> Some(""), objective |-> Some("look at the files")],
    [stop |-> TRUE, final_flag |-> Some("flag{m1}"), objective |-> Some("done")],
    [stop |-> TRUE, final_flag |-> Some("the flag is in notes.txt"), objective |-> Some("done")] }

\* what hacker.attempt can return: a flag of its own, or an action to run
HackerAnswers ==
  { [flag |-> Some("flag{h1}"), action |-> None],
    [flag |-> Some("FLAG{h2}"), action |-> None],
    [flag |-> None, action |-> None] }
  \cup { [flag |-> None, action |-> Some(a)] : a \in Actions }

\* how a child process can end: its return code and what it wrote
ChildExits ==
  { [rc |-> 0, stdout |-> "data\n", stderr |-> ""],
    [rc |-> 0, stdout |-> "flag{run1}\n", stderr |-> ""],
    [rc |-> 1, stdout |-> "", stderr |-> "cannot open"],
    [rc |-> 1, stdout |-> "", stderr |-> "see CTF{err2}"],
    [rc |-> 1, stdout |-> "Flag{out3}", stderr |-> "ctf{err3}"] }

\* what a child had written when its timeout expired (None: nothing)
ChildPartials ==
  { [stdout |-> None, stderr |-> None],
    [stdout |-> Some("partial\n"), stderr |-> None],
    [stdout |-> None, stderr |-> Some("flag{late}")] }

\* the policies a run can be started with
Policy(net, inst, cmds) ==
  [allow_network |-> net, allow_install |-> inst, cmd_allowlist |-> cmds,
   install_allowlist |-> DEFAULT_INSTALL_ALLOWLIST]

\* an allowlist the user has edited: no interpreter, and curl, sudo and brew
WIDE_CMD_ALLOWLIST ==
  (DEFAULT_CMD_ALLOWLIST \ {"python3", "python"}) \cup {"curl", "sudo", "brew"}

DefaultPolicy == Policy(FALSE, FALSE, DEFAULT_CMD_ALLOWLIST)

Policies ==
  { DefaultPolicy,
    Policy(FALSE, TRUE, DEFAULT_CMD_ALLOWLIST),
    Policy(FALSE, FALSE, WIDE_CMD_ALLOWLIST),
    Policy(TRUE, TRUE, WIDE_CMD_ALLOWLIST) }

(***************************************************************************)
(* The state of a run.                                                     *)
(***************************************************************************)
VARIABLES
  policy,      \* the arguments allow_network, allow_install and the allowlists
  host,        \* the operating system _detect_host finds
  max_steps,   \* the argument max_steps
  pc,          \* where the run is: start, manager, hacker, child, hung, done, raised
  it,          \* iterations of the for loop begun
  steps,       \* state["steps"]
  found_flag,  \* state["found_flag"]
  last_exec,   \* state["last_exec"]
  objective,   \* state["objective"]
  call,        \* the action of this iteration, the effects and the result of running it
  child,       \* the child process the Runner waits for
  exit,        \* how the loop was left
  written,     \* what _write_outputs_local wrote
  checked,     \* the descriptor validate_action was given last, and its answer
  outfiles     \* the indices of the step_NNN.stdout.txt / .stderr.txt files written

vars == <<policy, host, max_steps, pc, it, steps, found_flag, last_exec, objective,
          call, child, exit, written, checked, outfiles>>

\* end: how the child process of the call ended, once it has; exc: the
\* exception that left the try block of lines 395-433, if one did
NoCall == [action |-> <<>>, fx |-> NoFx, end |-> None, res |-> None, exc |-> None]

Init ==
  /\ policy \in Policies
  /\ host \in Hosts
  /\ max_steps \in 0..MaxSteps
  /\ pc = "start"
  /\ it = 0
  /\ steps = <<>>
  /\ found_flag = None
  /\ last_exec = None
  /\ objective = None
  /\ call = NoCall
  /\ child = None
  /\ exit = "none"
  /\ written = None
  /\ checked = None
  /\ outfiles = <<>>

\* state.get("done", {}): the state is built without a "done" key (lines
\* 311-328) and no line of the loop adds one
state_done == [kind \in {} |-> {}]

\* bool(x) of an optional string
Truthy(o) == IsSome(o) /\ Val(o) # ""

\* lines 466-467: _write_outputs_local(out_dir, state); return state
Return(how, ff, st) ==
  /\ pc' = "done"
  /\ exit' = how
  /\ written' = Some([found_flag |-> ff, steps |-> Len(st),
                      flag_txt |-> IF Truthy(ff) THEN ff ELSE None])

\* line 344 with range(max_steps + 1)
ForNext_OneMore(n, ff, st) ==
  IF n <= max_steps
  THEN pc' = "manager" /\ exit' = exit /\ written' = written
  ELSE Return("max_steps", ff, st)

\* line 344: the next value of range(max_steps), or its end
ForNext(n, ff, st) ==
  IF n < max_steps
  THEN pc' = "manager" /\ exit' = exit /\ written' = written
  ELSE Return("max_steps", ff, st)

\* lines 285-343: the state is built, the Runner made, the loop entered
Begin ==
  /\ pc = "start"
  /\ ForNext(0, found_flag, steps)
  /\ UNCHANGED <<checked, policy, host, max_steps, it, steps, found_flag, last_exec, objective,
                 call, child, outfiles>>

\* lines 345-353: the manager is asked
ManagerDecide(m) ==
  /\ pc = "manager"
  /\ it' = it + 1
  /\ objective' = m.objective
  /\ call' = NoCall
  /\ IF m.stop /\ Truthy(m.final_flag)
     THEN /\ found_flag' = m.final_flag
          /\ steps' = Append(steps, [type |-> "manager_stop", flag |-> m.final_flag])
          /\ Return("manager_stop", found_flag', steps')
     ELSE /\ pc' = "hacker"
          /\ UNCHANGED <<found_flag, steps, exit, written>>
  /\ UNCHANGED <<checked, policy, host, max_steps, last_exec, child, outfiles>>

\* line 345: manager.decide raises; nothing in the loop catches it
ManagerRaises ==
  /\ pc = "manager"
  /\ it' = it + 1
  /\ pc' = "raised"
  /\ exit' = "exception"
  /\ UNCHANGED <<checked, policy, host, max_steps, steps, found_flag, last_exec, objective,
                 call, child, written, outfiles>>

\* int(action.get(f, d)): None when int() raises ValueError
IntArg(a, f, d) ==
  LET v == Get(a, f, d) IN IF IsDigits(v) THEN Some(ParseNat(v, 0)) ELSE None

ValueError(a, f) ==
  Raised("ValueError: invalid literal for int() with base 10: '" \o a[f] \o "'", NoFx)

\* lines 393-435: the action is handed to the Runner
Dispatch(action, pol, hst) ==
  LET atype == Get(action, "type", "None")
      secs(d) == IntArg(action, "timeout_s", d)
  IN  IF atype = "list_files" THEN list_files
      ELSE IF atype = "read_file_head"
      THEN IF IntArg(action, "max_bytes", "250000") = None
           THEN {ValueError(action, "max_bytes")}
           ELSE read_file_head(Get(action, "target", ""),
                               Val(IntArg(action, "max_bytes", "250000")))
      ELSE IF atype = "run_cmd"
      THEN IF Get(action, "cmd", List(<<>>)).j # "list"
           THEN {Raised("TypeError: 'int' object is not iterable", NoFx)}
           ELSE IF secs("10") = None THEN {ValueError(action, "timeout_s")}
           ELSE run_cmd(Get(action, "cmd", List(<<>>)).l, Val(secs("10")),
                        IF "cwd" \in DOMAIN action THEN Some(action.cwd) ELSE None,
                        pol, NoFx)
      ELSE IF atype = "run_python"
      THEN IF secs("10") = None THEN {ValueError(action, "timeout_s")}
           ELSE run_python(Get(action, "code", ""), Val(secs("10")), pol)
      ELSE IF atype = "extract_archive"
      THEN IF secs("20") = None THEN {ValueError(action, "timeout_s")}
           ELSE extract_archive(Get(action, "target", ""), Val(secs("20")), pol)
      ELSE IF atype = "install"
      THEN IF secs("120") = None THEN {ValueError(action, "timeout_s")}
           ELSE install(IF Get(action, "packages", List(<<>>)).j = "list"
                        THEN Get(action, "packages", List(<<>>)).l ELSE <<>>,
                        Val(secs("120")), pol, hst)
      ELSE {Returned(RunResult(FALSE, "", "unknown action.type: " \o atype, FALSE, None), NoFx)}

\* line 435 without the name and the message of the exception
ExecutionError_NoReason(exc) == RunResult(FALSE, "", "", FALSE, None)

\* lines 434-435: an exception of the Runner becomes a failed RunResult
ExecutionError(exc) == RunResult(FALSE, "", "execution error: " \o exc, FALSE, None)

\* line 462: if exec_res.flag
FlagFound(res) == Truthy(res.flag)

\* line 464 missing: the loop goes on after a flag
Breaks_Never(res) == FALSE

\* line 464 also taken when the action failed
Breaks_OnFailure(res) == FlagFound(res) \/ ~res.ok

\* line 464 only taken when the action succeeded
Breaks_OnlyOnSuccess(res) == FlagFound(res) /\ res.ok

\* line 464: the break, taken under the test of line 462
Breaks(res) == FlagFound(res)

\* what a step record keeps of the action: its type
StepAction(action) == Get(action, "type", "None")

\* lines 437-464: the step is recorded, and the loop ends or goes on
Finish(action, res, fx, end, exc) ==
  LET step_idx == Len(steps) + 1
      step_entry == [type |-> "exec", action |-> StepAction(action),
                     exec |-> [ok |-> res.ok, timeout |-> res.timeout,
                               stdout_file |-> step_idx, stderr_file |-> step_idx,
                               flag |-> res.flag]]
  IN  /\ outfiles' = Append(outfiles, step_idx)
      /\ last_exec' = Some([ok |-> res.ok, timeout |-> res.timeout,
                            stdout_preview |-> Prefix(res.stdout, 2000),
                            stderr_preview |-> Prefix(res.stderr, 2000),
                            flag |-> res.flag])
      /\ steps' = Append(steps, step_entry)
      /\ call' = [action |-> action, fx |-> fx, end |-> end, res |-> Some(res),
                  exc |-> exc]
      /\ child' = None
      /\ found_flag' = IF FlagFound(res) THEN res.flag ELSE found_flag
      /\ IF Breaks(res)
         THEN Return("runner_flag", found_flag', steps')
         ELSE ForNext(it, found_flag', steps')

\* subprocess.run replaced by a call that does not wait for the child: the
\* loop goes on while the child runs
Settle_NoWait(action, o, end) ==
  IF o.k = "result" THEN Finish(action, o.res, o.fx, end, None)
  ELSE IF o.k = "raise" THEN Finish(action, ExecutionError(o.exc), o.fx, end, Some(o.exc))
  ELSE /\ pc' = "manager"
       /\ child' = Some(o)
       /\ call' = [action |-> action, fx |-> o.fx, end |-> None, res |-> None,
                   exc |-> None]
       /\ UNCHANGED <<steps, found_flag, last_exec, exit, written, outfiles>>

\* an outcome of a Runner operation reaches the loop
Settle(action, o, end) ==
  IF o.k = "result" THEN Finish(action, o.res, o.fx, end, None)
  ELSE IF o.k = "raise" THEN Finish(action, ExecutionError(o.exc), o.fx, end, Some(o.exc))
  ELSE /\ pc' = "child"
       /\ child' = Some(o)
       /\ call' = [action |-> action, fx |-> o.fx, end |-> None, res |-> None,
                   exc |-> None]
       /\ UNCHANGED <<steps, found_flag, last_exec, exit, written, outfiles>>

\* lines 358-435: the hacker is asked and its answer acted on
HackerAttempt(h) ==
  /\ pc = "hacker"
  /\ LET action == IF IsSome(h.action) THEN Val(h.action) ELSE <<>>
         flag == Get(action, "flag", "")
     IN  IF IsSome(h.flag) /\ HasFlagPrefix(Val(h.flag))
         THEN /\ found_flag' = h.flag
              /\ steps' = Append(steps, [type |-> "hacker_found_direct", hacker |-> h])
              /\ Return("hacker_found_direct", found_flag', steps')
              /\ UNCHANGED <<last_exec, call, child, outfiles>>
         ELSE IF Get(action, "type", "None") = "stop"
         THEN /\ found_flag' = IF HasFlagPrefix(flag) THEN Some(flag) ELSE found_flag
              /\ steps' = Append(steps, [type |-> "exec", action |-> StepAction(action),
                                         exec |-> [type |-> "stop"]])
              /\ Return("stop", found_flag', steps')
              /\ call' = [NoCall EXCEPT !.action = action]
              /\ UNCHANGED <<last_exec, child, outfiles>>
         ELSE \E o \in Dispatch(action, policy, host) : Settle(action, o, None)
  /\ UNCHANGED <<checked, policy, host, max_steps, it, objective>>

\* line 358: hacker.attempt raises; nothing in the loop catches it
HackerRaises ==
  /\ pc = "hacker"
  /\ pc' = "raised"
  /\ exit' = "exception"
  /\ UNCHANGED <<checked, policy, host, max_steps, it, steps, found_flag, last_exec, objective,
                 call, child, written, outfiles>>

\* subprocess.TimeoutExpired carries what was captured as str on Windows
\* (run() reads it with communicate()) and as bytes elsewhere, whatever
\* text=True says (Python library reference, subprocess.TimeoutExpired.output)
PartialIsText(os) == os = "windows"

\* lines 195-196: the child of run_cmd has ended
Completed(e) ==
  LET flag == IF IsSome(find_flag(e.stdout)) THEN find_flag(e.stdout) ELSE find_flag(e.stderr)
  IN  Returned(RunResult(e.rc = 0, e.stdout, e.stderr, FALSE, flag), call.fx)

\* lines 197-201: the timeout of the child of run_cmd has expired; FLAG_RE is
\* a str pattern and its search of bytes raises TypeError
TimedOut(p, os) ==
  LET out == IF IsSome(p.stdout) THEN Val(p.stdout) ELSE ""
      err == IF IsSome(p.stderr) THEN Val(p.stderr) ELSE ""
      flag == IF IsSome(find_flag(out)) THEN find_flag(out) ELSE find_flag(err)
  IN  IF (out # "" \/ err # "") /\ ~PartialIsText(os)
      THEN Raised("TypeError: cannot use a string pattern on a bytes-like object", call.fx)
      ELSE Returned(RunResult(FALSE, out, err, TRUE, flag), call.fx)

\* lines 242-246: apt update has ended
AptUpdated(e, next, pol) ==
  IF e.rc # 0
  THEN {Returned(RunResult(FALSE, e.stdout, e.stderr, FALSE, None), call.fx)}
  ELSE run_cmd(next.cmd, next.timeout_s, None, pol, call.fx)

Ended(how, e) == [how |-> how, cmd |-> Val(child).cmd, out |-> e]

\* subprocess.run returns: the child has ended by itself
ChildExit(e) ==
  /\ pc = "child"
  /\ LET c == Val(child)
     IN  IF IsSome(c.next)
         THEN \E o \in AptUpdated(e, Val(c.next), policy) :
                Settle(call.action, o, IF o.k = "spawn" THEN None ELSE Some(Ended("exit", e)))
         ELSE Settle(call.action, Completed(e), Some(Ended("exit", e)))
  /\ UNCHANGED <<checked, policy, host, max_steps, it, objective>>

\* subprocess.run raises TimeoutExpired: the child was killed at its timeout
ChildTimeout(p) ==
  /\ pc = "child"
  /\ IsSome(Val(child).timeout_s)
  /\ Settle(call.action, TimedOut(p, host), Some(Ended("timeout", p)))
  /\ UNCHANGED <<checked, policy, host, max_steps, it, objective>>

\* subprocess.run raises: the executable is not on this host
ChildNotFound ==
  /\ pc = "child"
  /\ Settle(call.action,
            Raised("FileNotFoundError: [Errno 2] No such file or directory: '"
                   \o Val(child).cmd[1] \o "'", call.fx),
            Some(Ended("notfound", <<>>)))
  /\ UNCHANGED <<checked, policy, host, max_steps, it, objective>>

\* a child run without a timeout does not end: subprocess.run never returns
ChildHangs ==
  /\ pc = "child"
  /\ Val(child).timeout_s = None
  /\ pc' = "hung"
  /\ UNCHANGED <<checked, policy, host, max_steps, it, steps, found_flag, last_exec, objective,
                 call, child, exit, written, outfiles>>

Next ==
  \/ Begin
  \/ \E m \in ManagerDecisions : ManagerDecide(m)
  \/ ManagerRaises
  \/ \E h \in HackerAnswers : HackerAttempt(h)
  \/ HackerRaises
  \/ \E e \in ChildExits : ChildExit(e)
  \/ \E p \in ChildPartials : ChildTimeout(p)
  \/ ChildNotFound
  \/ ChildHangs

Spec == Init /\ [][Next]_vars

Terminated == pc \in {"done", "raised"}

\* validate_action is applied to a descriptor; the loop never calls it, so
\* this is a step of a caller of actions.py and no step of the run
Validate(a) ==
  /\ checked' = Some([descriptor |-> a, error |-> validate_action(a)])
  /\ UNCHANGED <<policy, host, max_steps, pc, it, steps, found_flag, last_exec,
                 objective, call, child, exit, written, outfiles>>

ValidatorNext == \E a \in Descriptors : Validate(a)

\* validate_action reads nothing of a run: one initial state is enough
ValidatorInit == Init /\ policy = DefaultPolicy /\ host = "linux" /\ max_steps = 0

ValidatorSpec == ValidatorInit /\ [][ValidatorNext]_vars

\* the scheduling of a sequential program: a step that can be taken is taken
FairSpec == Spec /\ WF_vars(Next)

(***************************************************************************)
(* The claims.                                                             *)
(***************************************************************************)
CallType == Get(call.action, "type", "None")
HasResult == IsSome(call.res)
Res == Val(call.res)

\* the loop has converted the arguments and called the Runner
RunnerInvoked ==
  /\ CallType \in {"run_cmd", "run_python", "extract_archive", "install", "read_file_head"}
  /\ CallType = "run_cmd" => Get(call.action, "cmd", List(<<>>)).j = "list"
  /\ "timeout_s" \in DOMAIN call.action => IsDigits(call.action.timeout_s)
  /\ "max_bytes" \in DOMAIN call.action => IsDigits(call.action.max_bytes)

\* the tokens a run_cmd or run_python request has the Runner execute
RequestedCmd ==
  IF CallType = "run_cmd"
  THEN IF Get(call.action, "cmd", List(<<>>)).j = "list"
       THEN Get(call.action, "cmd", List(<<>>)).l ELSE <<>>
  ELSE <<IF "python3" \in policy.cmd_allowlist THEN "python3" ELSE "python",
         "-c", Get(call.action, "code", "")>>

\* p is root or below it, component by component
IsUnder(p, root) ==
  LET a == Segs(p, "")
      r == Segs(root, "")
  IN  Len(a) >= Len(r) /\ SubSeq(a, 1, Len(r)) = r

\* C1: the loop performs at most max_steps iterations and then terminates
\* (no state short of the end is without a next step); a run that exhausts
\* the budget ends in the max-steps outcome with found_flag unset.
C1_TerminatesWithinMaxSteps ==
  /\ it <= max_steps
  /\ Terminated \/ ENABLED Next
  /\ exit = "max_steps" => pc = "done" /\ it = max_steps /\ found_flag = None

\* C2: found_flag is write-once: once it is not None no step changes it.
C2_FoundFlagWriteOnce == [][IsSome(found_flag) => found_flag' = found_flag]_vars

C2_Witness == IsSome(found_flag) /\ exit = "runner_flag" /\ Len(steps) = 2

\* C3: a read_file_head or extract_archive target whose canonical path is
\* neither the challenge root nor below it is answered 'path escape blocked',
\* with no file read and no process started.
C3_PathConfinement ==
  (/\ CallType \in {"read_file_head", "extract_archive"}
   /\ RunnerInvoked
   /\ ~IsUnder(Resolve(PathJoin(challenge_dir, Get(call.action, "target", ""))), challenge_dir))
    => /\ call.fx.reads = <<>>
       /\ call.fx.spawned = <<>>
       /\ HasResult
       /\ Res = RunResult(FALSE, "", "path escape blocked", FALSE, None)

\* C4: a run_cmd or run_python request with no token, or whose first token's
\* basename is not in cmd_allowlist, is answered 'empty cmd' / 'cmd not
\* allowed', with no process started and no working directory made.
C4_CommandAllowlist ==
  (/\ CallType \in {"run_cmd", "run_python"}
   /\ RunnerInvoked
   /\ RequestedCmd = <<>> \/ Basename(RequestedCmd[1]) \notin policy.cmd_allowlist)
    => /\ call.fx.spawned = <<>>
       /\ call.fx.mkdirs = <<>>
       /\ HasResult
       /\ Res = RunResult(FALSE, "",
                          IF RequestedCmd = <<>> THEN "empty cmd"
                          ELSE "cmd not allowed: " \o Basename(RequestedCmd[1]),
                          FALSE, None)

C4_Witness ==
  CallType = "run_cmd" /\ HasResult /\ Res.stderr = "cmd not allowed: rm"

\* the joined tokens hold, whatever the case of the letters, a blocked substring
HoldsNetworkToken(cmd) ==
  \E tok \in NETWORK_TOKENS : Contains(Lower(Join(cmd, " ")), tok)

NetworkBlocked ==
  /\ call.fx.spawned = <<>>
  /\ HasResult
  /\ ~Res.ok
  /\ StartsWith(Res.stderr, "network token blocked: ")

PassesGates ==
  /\ Len(call.fx.spawned) = 1
  /\ call.fx.spawned[1].cmd = RequestedCmd

\* C5, as claimed: with allow_network false every command holding a blocked
\* substring is answered 'network token blocked' (so is curl http://evil
\* under the default policy); with allow_network true and an allowlisted
\* first token the same command passes the gates and is run.
C5_NetworkGate_AsClaimed ==
  (CallType = "run_cmd" /\ RunnerInvoked /\ RequestedCmd # <<>>
     /\ HoldsNetworkToken(RequestedCmd))
    => /\ ~policy.allow_network => NetworkBlocked
       /\ (policy.allow_network /\ Basename(RequestedCmd[1]) \in policy.cmd_allowlist)
            => PassesGates

\* C5, amended: with allow_network false a command holding a blocked
\* substring is answered 'network token blocked' when its first token's
\* basename is in cmd_allowlist, and 'cmd not allowed' when it is not (curl
\* http://evil under the default policy); in neither case is it run.  With
\* allow_network true and an allowlisted first token it passes the gates and
\* is run.
C5_NetworkGate ==
  (CallType = "run_cmd" /\ RunnerInvoked /\ RequestedCmd # <<>>
     /\ HoldsNetworkToken(RequestedCmd))
    => /\ (~policy.allow_network /\ Basename(RequestedCmd[1]) \in policy.cmd_allowlist)
            => NetworkBlocked
       /\ (~policy.allow_network /\ Basename(RequestedCmd[1]) \notin policy.cmd_allowlist)
            => /\ call.fx.spawned = <<>>
               /\ HasResult
               /\ ~Res.ok
               /\ Res.stderr = "cmd not allowed: " \o Basename(RequestedCmd[1])
       /\ (policy.allow_network /\ Basename(RequestedCmd[1]) \in policy.cmd_allowlist)
            => PassesGates

C5_Witness ==
  /\ ~policy.allow_network
  /\ CallType = "run_cmd"
  /\ RequestedCmd = <<"strings", "WGET.log">>
  /\ HasResult
  /\ Res.stderr = "network token blocked: wget"

\* C6: a step whose Runner result is a failure without a flag appends its
\* record and goes on to the next iteration when the budget is not used up
\* (and ends as max-steps when it is): the failure never ends the loop.
C6_FailureIsLocal ==
  [][(/\ call.res = None
      /\ IsSome(call'.res)
      /\ ~Val(call'.res).ok
      /\ Val(call'.res).flag = None)
       => /\ Len(steps') = Len(steps) + 1
          /\ SubSeq(steps', 1, Len(steps)) = steps
          /\ steps'[Len(steps')].exec.ok = FALSE
          /\ found_flag' = found_flag
          /\ IF it < max_steps
             THEN pc' = "manager" /\ exit' = "none"
             ELSE pc' = "done" /\ exit' = "max_steps"]_vars

C6_Witness ==
  /\ HasResult
  /\ ~Res.ok
  /\ Res.timeout
  /\ Res.flag = None
  /\ pc = "manager"
  /\ Len(steps) = 1

\* C7: a Runner result that carries a flag, whether or not the action
\* succeeded, sets found_flag to it, is recorded, and ends the loop as found
\* in that iteration, no provider being asked again; read_file_head of
\* flag.txt, which holds the line flag{abc123}, returns that flag.
C7_FlagEndsLoop ==
  /\ (HasResult /\ IsSome(Res.flag))
       => /\ found_flag = Res.flag
          /\ pc = "done"
          /\ exit = "runner_flag"
          /\ Len(steps) = it
          /\ steps[Len(steps)].exec.flag = Res.flag
          /\ ~ENABLED Next
  /\ call.action = [type |-> "read_file_head", target |-> "flag.txt"]
       => HasResult /\ Res.ok /\ Res.flag = Some("flag{abc123}")

C7_Witness ==
  /\ HasResult
  /\ ~Res.ok
  /\ IsSome(Res.flag)
  /\ IsSome(call.end)
  /\ Val(call.end).how = "exit"
  /\ pc = "done"

\* what the child had written when it was killed
Captured(o) == IF IsSome(o) THEN Val(o) ELSE ""

\* C8: a command that exceeds its timeout yields a RunResult with
\* timeout = true and ok = false that holds the stdout and stderr captured
\* before the expiry; and in every RunResult timeout = true implies ok = false.
C8_TimeoutResult ==
  /\ (IsSome(call.end) /\ Val(call.end).how = "timeout")
       => /\ HasResult
          /\ Res.timeout
          /\ ~Res.ok
          /\ Res.stdout = Captured(Val(call.end).out.stdout)
          /\ Res.stderr = Captured(Val(call.end).out.stderr)
  /\ (HasResult /\ Res.timeout) => ~Res.ok

RequestedPackages ==
  IF Get(call.action, "packages", List(<<>>)).j = "list"
  THEN Get(call.action, "packages", List(<<>>)).l ELSE <<>>

AllPackagesAllowed ==
  \A i \in 1..Len(RequestedPackages) : RequestedPackages[i] \in policy.install_allowlist

\* C9: install starts a process only if allow_install is true and every
\* requested package is in install_allowlist; one package outside it fails
\* the whole request with 'package not allowed' and nothing is started; with
\* allow_install false every request fails and nothing is started.
C9_InstallGating ==
  (CallType = "install" /\ RunnerInvoked)
    => /\ call.fx.spawned # <<>> => policy.allow_install /\ AllPackagesAllowed
       /\ ~policy.allow_install
            => call.fx.spawned = <<>> /\ HasResult /\ ~Res.ok
       /\ (policy.allow_install /\ ~AllPackagesAllowed)
            => /\ call.fx.spawned = <<>>
               /\ HasResult
               /\ ~Res.ok
               /\ StartsWith(Res.stderr, "package not allowed: ")

C9_Witness ==
  /\ policy.allow_install
  /\ CallType = "install"
  /\ RequestedPackages = <<"jq", "evilpkg">>
  /\ HasResult
  /\ Res.stderr = "package not allowed: evilpkg"

\* C10: under the default policy extract_archive of evidence.tar.gz passes
\* every gate and runs tar with the output directory work_dir/extracted; when
\* tar exits 0 and prints no flag the result is ok with no flag and the loop
\* goes on.
C10_ExtractEvidence ==
  (/\ policy = DefaultPolicy
   /\ call.action = [type |-> "extract_archive", target |-> "evidence.tar.gz"])
    => /\ call.fx.spawned =
            <<[cmd |-> <<"tar", "-xf", "/ctf/evidence.tar.gz", "-C", "/work/extracted">>,
               cwd |-> Some(work_dir), timeout_s |-> Some(20)]>>
       /\ (/\ IsSome(call.end)
           /\ Val(call.end).how = "exit"
           /\ Val(call.end).out.rc = 0
           /\ find_flag(Val(call.end).out.stdout) = None
           /\ find_flag(Val(call.end).out.stderr) = None)
            => /\ HasResult
               /\ Res.ok
               /\ Res.flag = None
               /\ found_flag = None
               /\ exit \in {"none", "max_steps"}

\* the seven kinds of action of the specification, under the names of the code
SpecKinds ==
  {"list_files", "read_file_head", "run_cmd", "run_python", "extract_archive",
   "install", "stop"}

\* the hacker has answered with an action and the loop has acted on it
Handled == HasResult \/ IsSome(child) \/ call.action # <<>>

\* the kind of the descriptor is none of the seven, or it is run_cmd without
\* a non-empty token list
Malformed(a) ==
  \/ Get(a, "type", "None") \notin SpecKinds
  \/ /\ Get(a, "type", "None") = "run_cmd"
     /\ \/ Get(a, "cmd", List(<<>>)).j # "list"
        \/ Get(a, "cmd", List(<<>>)).l = <<>>

\* C11: an action that fails validation (kind outside the enumerated set, a
\* required field missing or of the wrong shape) ends the run in the
\* invalid-action state: the Runner is not invoked for it, its error is
\* recorded and no provider is asked again.
C11_InvalidActionStops ==
  (Handled /\ Malformed(call.action))
    => /\ pc = "done"
       /\ exit = "invalid_action"
       /\ call.fx = NoFx
       /\ call.res = None

\* C12: a manager decision that signals stop ends the loop in that iteration,
\* the hacker not being asked and nothing being executed: with a flag value
\* found_flag is set to it (found), without one found_flag is left as it was
\* (stopped by the provider).
C12_ManagerStop ==
  [][\A m \in ManagerDecisions :
       (m.stop /\ ManagerDecide(m))
         => /\ pc' = "done"
            /\ call' = NoCall
            /\ IF Truthy(m.final_flag)
               THEN found_flag' = m.final_flag /\ exit' = "manager_stop"
               ELSE found_flag' = found_flag]_vars

\* the whole of s is a flag by FLAG_RE
IsFlagValue(s) == find_flag(s) = Some(s)

\* C13: a stop action ends the loop in that iteration without the Runner
\* being invoked; when it carries a flag value found_flag is that value
\* (found), and only when it carries none is found_flag unset (stopped by
\* the provider).
C13_StopAction ==
  CallType = "stop"
    => /\ pc = "done"
       /\ exit = "stop"
       /\ call.fx = NoFx
       /\ call.res = None
       /\ IF IsFlagValue(Get(call.action, "flag", ""))
          THEN found_flag = Some(call.action.flag)
          ELSE found_flag = None

\* C14: when a provider query raises, the run ends in a terminal state of
\* its own and still returns the final state, the steps so far recorded and
\* the outputs written; every path of the loop returns.
C14_ProviderFailureReturns ==
  /\ pc # "raised"
  /\ exit = "exception"
       => /\ pc = "done"
          /\ IsSome(written)
          /\ Val(written).steps = Len(steps)

\* C15: no LocalRunner operation raises to its caller: whatever goes wrong
\* (a confined target that is missing or a directory, an executable that
\* cannot be started) comes back as a RunResult with ok = false and the
\* reason in stderr.
C15_RunnerNeverRaises ==
  (CallType = "list_files" \/ RunnerInvoked) /\ HasResult
    => /\ call.exc = None
       /\ ~Res.ok /\ ~Res.timeout /\ call.end = None => Res.stderr # ""

\* C16: every process started for an install action has passed the gates of
\* run_cmd: the basename of its first token is in cmd_allowlist, and with
\* allow_network false its tokens hold no blocked network substring.
C16_InstallThroughGates ==
  CallType = "install"
    => \A i \in 1..Len(call.fx.spawned) :
         /\ Basename(call.fx.spawned[i].cmd[1]) \in policy.cmd_allowlist
         /\ ~policy.allow_network => ~HoldsNetworkToken(call.fx.spawned[i].cmd)

\* C17: every child process the Runner starts, for any kind of action, runs
\* under a timeout, so that the Runner call returns and the loop is never
\* blocked by a child that does not exit.
C17_EveryChildHasTimeout ==
  /\ \A i \in 1..Len(call.fx.spawned) : IsSome(call.fx.spawned[i].timeout_s)
  /\ pc # "hung"

\* d is the scratch directory or below it, and neither the challenge root
\* nor below that
InScratch(d) == IsUnder(d, work_dir) /\ ~IsUnder(d, challenge_dir)

\* C18: whatever the cwd field of a run_cmd action, the directory the child
\* is started in, made beforehand, is work_dir or a descendant of it and
\* never the challenge root or a directory inside it.
C18_CwdUnderWorkDir ==
  CallType = "run_cmd"
    => /\ \A i \in 1..Len(call.fx.spawned) : InScratch(Val(call.fx.spawned[i].cwd))
       /\ \A i \in 1..Len(call.fx.mkdirs) : InScratch(call.fx.mkdirs[i])

\* first match wins, over stdout then stderr
FirstFlag(out, err) == IF IsSome(find_flag(out)) THEN find_flag(out) ELSE find_flag(err)

\* C19: the flag of every RunResult the Runner returns from an operation
\* that produces text is the first flag match of its stdout, else of its
\* stderr, else none; no result holds flag-shaped text with flag = none.
C19_FlagIsFirstMatch ==
  (/\ CallType \in {"list_files", "read_file_head", "run_cmd", "run_python",
                    "extract_archive", "install"}
   /\ HasResult
   /\ call.exc = None)
    => Res.flag = FirstFlag(Res.stdout, Res.stderr)

\* a descriptor of one of the seven kinds whose required fields are there
\* and of the right shape
AcceptedBySpec(a) ==
  /\ Get(a, "type", "None") \in SpecKinds
  /\ Get(a, "type", "None") = "run_cmd"
       => /\ Get(a, "cmd", Number(0)).j = "list"
          /\ Get(a, "cmd", Number(0)).l # <<>>
  /\ Get(a, "type", "None") = "run_python" => Get(a, "code", Number(0)).j = "str"

\* C20: validate_action accepts a descriptor exactly when its kind is one of
\* the seven kinds and the fields its kind requires are present with the
\* right shape (run_cmd: a non-empty list cmd; run_python: a string code),
\* whatever other fields the descriptor holds.
C20_ValidatorAcceptsExactly ==
  IsSome(checked)
    => (Val(checked).error = None <=> AcceptedBySpec(Val(checked).descriptor))

\* C21: after an action is executed its (kind, target) pair is a member of
\* the done-set of its kind held in the state (once, however often the pair
\* is executed, while the step log has a record for each execution).
C21_DoneSetRecordsPair ==
  (/\ CallType \in {"read_file_head", "extract_archive"}
   /\ RunnerInvoked
   /\ HasResult
   /\ call.exc = None)
    => /\ CallType \in DOMAIN state_done
       /\ Get(call.action, "target", "") \in state_done[CallType]
       /\ steps[Len(steps)].action = CallType

\* the summary of a RunResult the providers are shown
Summary(res) ==
  [ok |-> res.ok, timeout |-> res.timeout,
   stdout_preview |-> Prefix(res.stdout, 2000),
   stderr_preview |-> Prefix(res.stderr, 2000), flag |-> res.flag]

\* C22: at every provider query made after an action was executed,
\* last_exec is the summary of the action executed last; after an action
\* whose child timed out the next manager query sees timeout = true and
\* ok = false.
C22_LastExecIsLatest ==
  /\ (pc \in {"manager", "hacker"} /\ steps # <<>>)
       => /\ IsSome(last_exec)
          /\ Val(last_exec).ok = steps[Len(steps)].exec.ok
          /\ Val(last_exec).timeout = steps[Len(steps)].exec.timeout
          /\ Val(last_exec).flag = steps[Len(steps)].exec.flag
  /\ (pc = "manager" /\ HasResult) => last_exec = Some(Summary(Res))
  /\ (pc = "manager" /\ IsSome(call.end) /\ Val(call.end).how = "timeout")
       => IsSome(last_exec) /\ Val(last_exec).timeout /\ ~Val(last_exec).ok

\* C23: in an iteration the manager is asked once and first, the hacker at
\* most once and only after it, and the Runner is given at most one action
\* and only after both; when the manager is asked again the record and the
\* summary of the iteration before are in the state and no child is running.
C23_OneQueryOneActionPerIteration ==
  [][/\ it' # it
          => /\ pc = "manager"
             /\ it' = it + 1
             /\ child = None
             /\ Len(steps) = it
             /\ it >= 1 => /\ steps[it].type = "exec"
                           /\ IsSome(last_exec)
                           /\ Val(last_exec).ok = steps[it].exec.ok
     /\ pc' = "hacker" => pc = "manager" /\ it' = it + 1
     /\ pc = "hacker" => pc' # "hacker" /\ it' = it
     /\ (call'.action # call.action \/ Len(call'.fx.spawned) > Len(call.fx.spawned))
          => \/ pc = "hacker"
             \/ pc = "manager" /\ call' = NoCall
             \/ pc = "child" /\ call'.action = call.action /\ it' = it
     /\ pc' = "child" => pc \in {"hacker", "child"} /\ IsSome(child')]_vars

C23_Witness ==
  /\ it = 2
  /\ pc = "child"
  /\ Len(steps) = 1
  /\ IsSome(last_exec)
  /\ Len(call.fx.spawned) = 1

\* the iteration begun last has not yet appended its record
InIteration(p) == p \in {"hacker", "child", "hung", "raised"}

\* C24: every iteration that completes appends exactly one record to steps
\* and no record is ever removed or rewritten, so len(steps) is the number
\* of completed iterations and at most max_steps; the indices naming the
\* step output files are strictly increasing, so no step's files are
\* overwritten by a later step.
C24_StepsAppendOnly ==
  [][/\ Len(steps') \in {Len(steps), Len(steps) + 1}
     /\ SubSeq(steps', 1, Len(steps)) = steps
     /\ Len(steps') = (IF InIteration(pc') THEN it' - 1 ELSE it')
     /\ (InIteration(pc) /\ ~InIteration(pc')) => Len(steps') = Len(steps) + 1
     /\ Len(steps') <= max_steps
     /\ it' <= max_steps
     /\ \A i, j \in 1..Len(outfiles') : i < j => outfiles'[i] < outfiles'[j]
     /\ \A i \in 1..Len(steps') :
          steps'[i].type = "exec" /\ "stdout_file" \in DOMAIN steps'[i].exec
            => steps'[i].exec.stdout_file = i /\ steps'[i].exec.stderr_file = i]_vars

C24_Witness ==
  /\ pc = "done"
  /\ it = 2
  /\ Len(steps) = 2
  /\ outfiles = <<1, 2>>

\* C25: found_flag is always null or a flag-shaped string that begins with
\* one of the recognised tags, whichever writer set it.
C25_FoundFlagIsFlagShaped ==
  IsSome(found_flag)
    => HasFlagPrefix(Val(found_flag)) /\ IsFlagValue(Val(found_flag))

\* the step that ends now handled an action whose dispatch or execution
\* raised, or an action of unknown type
FailedInDispatch ==
  /\ call.res = None
  /\ IsSome(call'.res)
  /\ \/ IsSome(call'.exc)
     \/ Get(call'.action, "type", "None") \notin
          {"list_files", "read_file_head", "run_cmd", "run_python",
           "extract_archive", "install"}

\* C26: an exception raised while an action is dispatched or executed (and
\* an unknown action type) becomes a failed RunResult whose stderr names the
\* error; the step record is appended, last_exec updated, found_flag left
\* as it was, and the loop goes on with the next iteration.
C26_ExceptionBecomesFailedStep ==
  [][FailedInDispatch
       => /\ ~Val(call'.res).ok
          /\ Val(call'.res).flag = None
          /\ Val(call'.res).stderr =
               (IF IsSome(call'.exc) THEN "execution error: " \o Val(call'.exc)
                ELSE "unknown action.type: " \o Get(call'.action, "type", "None"))
          /\ Len(steps') = Len(steps) + 1
          /\ steps'[Len(steps')].type = "exec"
          /\ steps'[Len(steps')].exec.ok = FALSE
          /\ last_exec' = Some(Summary(Val(call'.res)))
          /\ found_flag' = found_flag
          /\ IF it < max_steps
             THEN pc' = "manager" /\ exit' = "none"
             ELSE pc' = "done" /\ exit' = "max_steps"]_vars

C26_Witness ==
  /\ HasResult
  /\ call.exc = Some("FileNotFoundError: [Errno 2] No such file or directory: /ctf/missing.txt")
  /\ Res.stderr = "execution error: FileNotFoundError: [Errno 2] No such file or directory: /ctf/missing.txt"
  /\ pc = "manager"
  /\ Len(steps) = 1
====
